---- MODULE Spec2Model ----
(***************************************************************************)
(* Model of the emotion-detection web service:                             *)
(*   EmotionDetection/emotion_detection.py  emotion_detector               *)
(*   server.py                              emotion_detector_route         *)
(* One request at a time travels idle -> called -> posted -> returned ->   *)
(* responded.  The external classifier is the environment: it answers the  *)
(* single POST with any response of the bounded set Responses.             *)
(*                                                                         *)
(* JSON / Python values are tagged records [t, v]:                         *)
(*   Num(n)   a number (scores are integers here; only their order and     *)
(*            sign are used by the code),                                  *)
(*   Str      a JSON string where a number was expected,                   *)
(*   Missing  the key is absent from the JSON object.                      *)
(* Python's None is the string None.                                       *)
(***************************************************************************)
EXTENDS Integers, Sequences, FiniteSets, TLC

VARIABLES pc, text, calls, response, result, output

vars == <<pc, text, calls, response, result, output>>

(* ------------------------------ bounds -------------------------------- *)

\* Longest 'emotionPredictions' list of the fallback shape.
MaxPreds == 2

(* ------------------------------ values -------------------------------- *)

None == "None"

Num(n) == [t |-> "num", v |-> n]
Str == [t |-> "str", v |-> 0]
Missing == [t |-> "missing", v |-> 0]

IsNum(x) == x.t = "num"

\* Scores the classifier may send: negative, zero and two positive ones.
ScoreVals == {-2, 0, 1, 2}

JsonScores == {Num(n) : n \in ScoreVals} \cup {Str}

\* The keys of emotion_scores, in the dict's insertion order.
Emotions == <<"anger", "disgust", "fear", "joy", "sadness">>

EmotionSet == {Emotions[i] : i \in 1..Len(Emotions)}

\* Labels a fallback-shape prediction may carry: the five, an untracked one,
\* or no 'emotion' key at all (prediction.get('emotion') is then None).
Labels == EmotionSet \cup {"surprise", None}

Texts == {"", "I am glad this happened"}

\* Status codes the classifier may answer with.
Statuses == {200, 304, 400, 500}

(* ------------------------- the HTTP response --------------------------- *)

NoEmotions == [e \in EmotionSet |-> Missing]

Body(kind, emotions, preds) == [kind |-> kind, emotions |-> emotions, preds |-> preds]

\* A body that is not JSON, a JSON number, a JSON object without the
\* 'emotionPredictions' key, and one whose 'emotionPredictions' is [].
PlainBodies == {Body(k, NoEmotions, <<>>) : k \in {"notjson", "number", "nokey", "empty"}}

\* {'emotionPredictions': [{'emotions': {...}}, ...]}: each key present with
\* a value, or absent.
EmotionsBodies ==
    {Body("emotions", m, <<>>) : m \in [EmotionSet -> JsonScores \cup {Missing}]}

Predictions == [emotion : Labels, confidence : JsonScores \cup {Missing}]

RECURSIVE SeqsUpTo(_, _)
SeqsUpTo(S, n) ==
    IF n = 0 THEN {<<>>}
    ELSE LET shorter == SeqsUpTo(S, n - 1)
         IN shorter \cup {Append(s, x) : s \in {q \in shorter : Len(q) = n - 1}, x \in S}

\* {'emotionPredictions': [{'emotion': ..., 'confidence': ...}, ...]}
ListBodies == {Body("list", NoEmotions, p) : p \in SeqsUpTo(Predictions, MaxPreds) \ {<<>>}}

Bodies == PlainBodies \cup EmotionsBodies \cup ListBodies

NoResponse == [net |-> "none", status |-> 0, body |-> Body("notjson", NoEmotions, <<>>)]

\* requests.post raised (connection refused, DNS failure, ...).
NetworkError == [net |-> "error", status |-> 0, body |-> Body("notjson", NoEmotions, <<>>)]

Responses == {NetworkError} \cup [net : {"ok"}, status : Statuses, body : Bodies]

(* --------------------------- emotion_detector -------------------------- *)

Dict(scores, dominant) ==
    [ret |-> "dict",
     anger |-> scores["anger"], disgust |-> scores["disgust"], fear |-> scores["fear"],
     joy |-> scores["joy"], sadness |-> scores["sadness"],
     dominant_emotion |-> dominant]

Raise(exc) == [ret |-> "raise", exc |-> exc]

NoResult == [ret |-> "pending"]

\* The scores and dominant_emotion before the call.
InitScores == [e \in EmotionSet |-> Num(0)]

\* Variant: dominant_emotion starts as a label instead of None.
InitDominantLabel == "no dominant emotion"

InitDominant == None

\* max_score = -1.0
InitMaxScore == -1

\* response.raise_for_status(): HTTPError for 4xx and 5xx.
RaiseForStatus(status) == 400 <= status /\ status < 600

\* 'emotionPredictions' in response_json and response_json['emotionPredictions']
HasPredictions(body) == body.kind \in {"emotions", "list"}

\* emotions_data.get(e, 0.0)
GetScore(emotions_data, e) ==
    IF emotions_data[e] = Missing THEN Num(0) ELSE emotions_data[e]

\* max(emotion_scores, key=emotion_scores.get): the first key holding the
\* largest value; comparing a str with a float raises TypeError.
RECURSIVE MaxKey(_, _, _)
MaxKey(scores, i, best) ==
    IF i > Len(Emotions) THEN best
    ELSE LET e == Emotions[i]
         IN IF scores[e].t # scores[best].t THEN "TypeError"
            ELSE IF IsNum(scores[e]) /\ scores[e].v > scores[best].v
                 THEN MaxKey(scores, i + 1, e)
                 ELSE MaxKey(scores, i + 1, best)

\* Scenario 1: the first prediction carries an 'emotions' object.
FromEmotions(emotions_data) ==
    LET scores == [e \in EmotionSet |-> GetScore(emotions_data, e)]
        dom == MaxKey(scores, 2, Emotions[1])
    IN IF dom = "TypeError" THEN Raise("TypeError") ELSE Dict(scores, dom)

\* Variant: the 'joy' branch of the chain stores into sadness_score.
AssignSlip(scores, emotion_name, confidence) ==
    IF emotion_name = "joy" THEN [scores EXCEPT !["sadness"] = confidence]
    ELSE IF emotion_name \in EmotionSet
    THEN [scores EXCEPT ![emotion_name] = confidence]
    ELSE scores

\* The if/elif chain storing a prediction's confidence under its emotion.
Assign(scores, emotion_name, confidence) ==
    IF emotion_name \in EmotionSet
    THEN [scores EXCEPT ![emotion_name] = confidence]
    ELSE scores

\* if confidence > max_score
Exceeds(confidence, max_score) == confidence.v > max_score

\* Scenario 2: the loop over a list of {emotion, confidence} predictions.
RECURSIVE FromList(_, _, _, _, _)
FromList(preds, i, scores, max_score, dominant) ==
    IF i > Len(preds) THEN Dict(scores, dominant)
    ELSE LET emotion_name == preds[i].emotion
             confidence == IF preds[i].confidence = Missing THEN Num(0)
                           ELSE preds[i].confidence
         IN IF ~IsNum(confidence) THEN Raise("TypeError")
            ELSE IF Exceeds(confidence, max_score)
                 THEN FromList(preds, i + 1, Assign(scores, emotion_name, confidence),
                               confidence.v, emotion_name)
                 ELSE FromList(preds, i + 1, Assign(scores, emotion_name, confidence),
                               max_score, dominant)

\* The body of the try block: what it returns or raises.
TryBlock(resp) ==
    IF resp.net = "error" THEN Raise("ConnectionError")
    ELSE IF RaiseForStatus(resp.status) THEN Raise("HTTPError")
    ELSE IF resp.body.kind = "notjson" THEN Raise("JSONDecodeError")
    ELSE IF resp.body.kind = "number" THEN Raise("TypeError")
    ELSE IF ~HasPredictions(resp.body) THEN Dict(InitScores, InitDominant)
    ELSE IF resp.body.kind = "emotions" THEN FromEmotions(resp.body.emotions)
    ELSE FromList(resp.body.preds, 1, InitScores, InitMaxScore, InitDominant)

\* Variant: without the last clause (except Exception) other errors escape.
ExceptNarrow(exc) ==
    IF exc \in {"ConnectionError", "HTTPError", "JSONDecodeError"}
    THEN [ret |-> "None"]
    ELSE [ret |-> "raised", exc |-> exc]

\* The three except clauses: RequestException (ConnectionError and HTTPError
\* are subclasses), json.JSONDecodeError, Exception.  Each returns None.
Except(exc) == [ret |-> "None"]

emotion_detector(resp) ==
    LET r == TryBlock(resp)
    IN IF r.ret = "raise" THEN Except(r.exc) ELSE r

(* ------------------------ emotion_detector_route ----------------------- *)

InvalidText == <<"Invalid text! Please try again!">>

NoOutput == <<>>

\* Variant: only the None result is taken for an error.
IsInvalidNoneOnly(response_data) == response_data.ret = "None"

\* response_data is None or response_data.get('dominant_emotion') is None
IsInvalid(response_data) ==
    response_data.ret = "None" \/ response_data.dominant_emotion = None

formatted_output(response_data) ==
    <<"For the given statement, the system response is 'anger': ", response_data.anger,
      ", 'disgust': ", response_data.disgust,
      ", 'fear': ", response_data.fear,
      ", 'joy': ", response_data.joy,
      " and 'sadness': ", response_data.sadness,
      ". The dominant emotion is ", response_data.dominant_emotion, ".">>

emotion_detector_route(response_data) ==
    IF IsInvalid(response_data) THEN InvalidText ELSE formatted_output(response_data)

\* Variant: a failed call is made again.
RetryOnFailure(res) == IF res.ret = "None" THEN "called" ELSE "returned"

\* Where control goes when emotion_detector is through with the response:
\* every path of the function is a return to the route.
AfterDetector(res) == "returned"

(* ------------------------------ actions -------------------------------- *)

Init ==
    /\ pc = "idle"
    /\ text = ""
    /\ calls = 0
    /\ response = NoResponse
    /\ result = NoResult
    /\ output = NoOutput

\* GET /emotionDetector?textToAnalyze=t: the route calls emotion_detector.
Receive ==
    /\ pc = "idle"
    /\ pc' = "called"
    /\ \E t \in Texts : text' = t
    /\ calls' = 0
    /\ response' = NoResponse
    /\ result' = NoResult
    /\ output' = NoOutput

\* requests.post(url, headers=headers, json=input_json): the one outbound call.
\* The classifier's answer r is the environment's choice.
Post ==
    /\ pc = "called"
    /\ \E r \in Responses : response' = r
    /\ pc' = "posted"
    /\ calls' = calls + 1
    /\ UNCHANGED <<text, result, output>>

\* The rest of emotion_detector: status check, parsing, except clauses.
Detect ==
    /\ pc = "posted"
    /\ result' = emotion_detector(response)
    /\ pc' = AfterDetector(result')
    /\ UNCHANGED <<text, calls, response, output>>

\* The route turns the result into the text it answers with.
Respond ==
    /\ pc = "returned"
    /\ result.ret \in {"None", "dict"}
    /\ output' = emotion_detector_route(result)
    /\ pc' = "responded"
    /\ UNCHANGED <<text, calls, response, result>>

\* The response is sent; nothing of the request is kept.
Finish ==
    /\ pc = "responded"
    /\ pc' = "idle"
    /\ text' = ""
    /\ calls' = 0
    /\ response' = NoResponse
    /\ result' = NoResult
    /\ output' = NoOutput

Next ==
    \/ Receive
    \/ Post
    \/ Detect
    \/ Respond
    \/ Finish

Spec == Init /\ [][Next]_vars

(* ------------------------------ claims --------------------------------- *)

\* emotion_detector has returned to the route: result is what it returned.
Returned == pc \in {"returned", "responded"}

Answered == response.net = "ok"

Is2xx(status) == 200 <= status /\ status < 300

\* A null score (Python None) in a returned record.
Null == [t |-> "null", v |-> 0]

Sentinel == "no dominant emotion"

ZeroRecord ==
    [ret |-> "dict", anger |-> Num(0), disgust |-> Num(0), fear |-> Num(0),
     joy |-> Num(0), sadness |-> Num(0), dominant_emotion |-> None]

NullRecord ==
    [ret |-> "dict", anger |-> Null, disgust |-> Null, fear |-> Null,
     joy |-> Null, sadness |-> Null, dominant_emotion |-> None]

\* C1: when the classifier answers HTTP 400, emotion_detector returns a record
\* whose five scores and dominant_emotion are all null, not the absent result.
C1_Status400YieldsNullRecord ==
    (Returned /\ Answered /\ response.status = 400) => result = NullRecord

\* C2: in every returned record a non-null dominant_emotion is one of the five
\* keys, its score is strictly positive, and no other returned score exceeds it.
C2_DominantIsPositiveMax ==
    (Returned /\ result.ret = "dict" /\ result.dominant_emotion # None) =>
        /\ result.dominant_emotion \in EmotionSet
        /\ IsNum(result[result.dominant_emotion])
        /\ result[result.dominant_emotion].v > 0
        /\ \A e \in EmotionSet :
              IsNum(result[e]) => result[e].v <= result[result.dominant_emotion].v

NonePositive(res) == \A e \in EmotionSet : IsNum(res[e]) /\ res[e].v <= 0

\* C3: on a 2xx response where none of the five extracted scores is strictly
\* positive, dominant_emotion is the sentinel "no dominant emotion".
C3_NoPositiveYieldsSentinel ==
    (Returned /\ Answered /\ Is2xx(response.status) /\ HasPredictions(response.body)
        /\ result.ret = "dict" /\ NonePositive(result)) =>
        result.dominant_emotion = Sentinel

\* C4: the dominant_emotion of any returned record is one of the five tracked
\* emotions, null or the sentinel, whatever labels the predictions carry.
C4_DominantIsKnownLabel ==
    (Returned /\ result.ret = "dict") =>
        result.dominant_emotion \in EmotionSet \cup {None, Sentinel}

\* Some prediction of a fallback-shape body carries a confidence that is not
\* a number.
NonNumericConfidence(body) ==
    /\ body.kind = "list"
    /\ \E i \in 1..Len(body.preds) : body.preds[i].confidence = Str

\* Some score of an 'emotions' object is not a number.
NonNumericScore(body) ==
    /\ body.kind = "emotions"
    /\ \E e \in EmotionSet : body.emotions[e] = Str

\* C5 as stated: after a network failure, any non-2xx status other than 400,
\* a non-JSON body or a JSON body of unexpected shape (not an object, or with
\* a score that is not a number), emotion_detector returns None, and no
\* exception ever reaches its caller.
C5_EveryFailureYieldsNone ==
    Returned =>
        /\ result.ret \in {"None", "dict"}
        /\ (\/ response.net = "error"
            \/ (Answered /\ ~Is2xx(response.status) /\ response.status # 400)
            \/ (Answered /\ response.body.kind \in {"notjson", "number"})
            \/ (Answered /\ NonNumericConfidence(response.body))
            \/ (Answered /\ NonNumericScore(response.body))) => result.ret = "None"

\* C5 amended: after a network failure, a 4xx or 5xx status other than 400,
\* a non-JSON body, a JSON number for a body, or a fallback-shape prediction
\* whose confidence is not a number, emotion_detector returns None; and no
\* exception ever reaches its caller, whatever the response.
C5_FailureYieldsNone ==
    Returned =>
        /\ result.ret \in {"None", "dict"}
        /\ (\/ response.net = "error"
            \/ (Answered /\ response.status \in 401..599)
            \/ (Answered /\ response.body.kind \in {"notjson", "number"})
            \/ (Answered /\ NonNumericConfidence(response.body))) => result.ret = "None"

\* A 200 answer with a string for a confidence ended in the None result.
C5_Witness ==
    /\ pc = "responded"
    /\ Answered /\ response.status = 200
    /\ NonNumericConfidence(response.body)
    /\ result.ret = "None"

\* C6: the route answers with the fixed error string exactly when
\* emotion_detector returned None or a record with a null dominant_emotion;
\* otherwise with the sentence listing that record's five scores, in the order
\* anger, disgust, fear, joy, sadness, and its dominant_emotion.
C6_RouteOutcome ==
    pc = "responded" =>
        /\ (output = <<"Invalid text! Please try again!">>)
              <=> (result.ret = "None" \/ result.dominant_emotion = None)
        /\ output # <<"Invalid text! Please try again!">> =>
              /\ Len(output) = 13
              /\ <<output[1], output[3], output[5], output[7], output[9], output[11],
                    output[13]>>
                  = <<"For the given statement, the system response is 'anger': ",
                      ", 'disgust': ", ", 'fear': ", ", 'joy': ", " and 'sadness': ",
                      ". The dominant emotion is ", ".">>
              /\ <<output[2], output[4], output[6], output[8], output[10]>>
                  = <<result.anger, result.disgust, result.fear, result.joy,
                      result.sadness>>
              /\ output[12] = result.dominant_emotion

\* A request answered with the sentence naming joy as dominant.
C6_Witness ==
    /\ pc = "responded"
    /\ result.ret = "dict" /\ result.dominant_emotion = "joy"
    /\ result.joy = Num(2) /\ result.anger = Num(1)
    /\ Len(output) = 13 /\ output[12] = "joy" /\ output[8] = Num(2)

\* C8: each request makes exactly one outbound call before it is answered:
\* none is answered without the call, and a failed call is not repeated.
C8_OneCallPerRequest ==
    /\ pc \in {"idle", "called"} => (calls = 0 /\ output = NoOutput)
    /\ pc \in {"posted", "returned", "responded"} => calls = 1
    /\ output # NoOutput => calls = 1

\* A request whose call failed with a 500 was answered after one call.
C8_Witness ==
    /\ pc = "responded"
    /\ Answered /\ response.status = 500
    /\ result.ret = "None"
    /\ calls = 1
    /\ output # NoOutput

\* The positions of the fallback-shape predictions naming emotion e.
Naming(preds, e) == {i \in 1..Len(preds) : preds[i].emotion = e}

\* The body is a classification with a number for every score it gives, and
\* a fallback-shape list names no emotion twice.
WellFormed(body) ==
    \/ /\ body.kind = "emotions"
       /\ \A e \in EmotionSet : body.emotions[e] # Str
    \/ /\ body.kind = "list"
       /\ \A i \in 1..Len(body.preds) : body.preds[i].confidence # Str
       /\ \A l \in Labels : Cardinality(Naming(body.preds, l)) <= 1

\* The score a well-formed body gives emotion e (0 when it gives none).
Classified(body, e) ==
    IF body.kind = "emotions"
    THEN (IF body.emotions[e] = Missing THEN 0 ELSE body.emotions[e].v)
    ELSE IF Naming(body.preds, e) = {} THEN 0
    ELSE LET c == body.preds[CHOOSE i \in Naming(body.preds, e) : TRUE].confidence
         IN IF c = Missing THEN 0 ELSE c.v

\* C7: on a 2xx classification where one of the five tracked emotions scores
\* strictly above the other four, emotion_detector returns a record whose
\* dominant_emotion is that emotion.
C7_ClearWinnerIsDominant ==
    (Returned /\ Answered /\ Is2xx(response.status) /\ WellFormed(response.body)) =>
        \A e \in EmotionSet :
            (\A f \in EmotionSet \ {e} :
                Classified(response.body, e) > Classified(response.body, f)) =>
            (result.ret = "dict" /\ result.dominant_emotion = e)

\* The confidences a body reports for emotion e.
Reported(body, e) ==
    IF body.kind = "emotions"
    THEN (IF body.emotions[e] = Missing THEN {} ELSE {body.emotions[e]})
    ELSE IF body.kind = "list"
    THEN {body.preds[i].confidence : i \in Naming(body.preds, e)} \ {Missing}
    ELSE {}

\* C9 as stated: on a 2xx response each returned field is a score the
\* classifier reported for that emotion when it reported one, and 0.0 when it
\* reported none.
C9_FieldIsReportedScore ==
    (Returned /\ Answered /\ Is2xx(response.status) /\ result.ret = "dict") =>
        \A e \in EmotionSet :
            IF Reported(response.body, e) = {} THEN result[e] = Num(0)
            ELSE result[e] \in Reported(response.body, e)

Last(S) == CHOOSE i \in S : \A j \in S : j <= i

\* What the last fallback-shape prediction naming e carries (0.0 when it has
\* no confidence, or when no prediction names e).
LastConfidence(preds, e) ==
    IF Naming(preds, e) = {} THEN Num(0)
    ELSE IF preds[Last(Naming(preds, e))].confidence = Missing THEN Num(0)
    ELSE preds[Last(Naming(preds, e))].confidence

\* C9 amended: on a 2xx response each returned field is, in the 'emotions'
\* shape, the value stored under that key (0.0 when the key is absent) and,
\* in the fallback shape, the confidence of the last prediction naming that
\* emotion (0.0 when that prediction has no confidence or none names it).
C9_FieldIsLastReportedScore ==
    (Returned /\ Answered /\ Is2xx(response.status) /\ result.ret = "dict") =>
        \A e \in EmotionSet :
            result[e] =
                IF response.body.kind = "emotions"
                THEN (IF response.body.emotions[e] = Missing THEN Num(0)
                      ELSE response.body.emotions[e])
                ELSE IF response.body.kind = "list"
                THEN LastConfidence(response.body.preds, e)
                ELSE Num(0)

\* A list naming joy twice with different confidences: the later one is kept.
C9_Witness ==
    /\ Returned
    /\ Answered /\ response.status = 200
    /\ response.body.kind = "list"
    /\ response.body.preds = <<[emotion |-> "joy", confidence |-> Num(2)],
                               [emotion |-> "joy", confidence |-> Num(1)]>>
    /\ result.ret = "dict" /\ result.joy = Num(1)

====
